---------------------------- MODULE Spec2Model ----------------------------
(***************************************************************************)
(* Model of the pretty-bytes crate: pretty_bytes, pretty_bytes_signed      *)
(* (src/src/decimal.rs), pretty_bytes_binary (src/src/binary.rs) and       *)
(* round_float (src/src/util.rs).                                          *)
(*                                                                         *)
(* The crate computes on u64, i64 and f64.  TLC's integers are 32 bits     *)
(* wide, so a natural number is a little-endian sequence of limbs in base  *)
(* 2^10 without leading zero limbs, and a finite f64 is the dyadic         *)
(* rational n / 2^s it denotes.  Every f64 operation rounds its exact      *)
(* result to 53 significant bits, ties to even, as IEEE 754 binary64 does  *)
(* (the values of this model stay far from the subnormal and overflow      *)
(* ranges).                                                                *)
(***************************************************************************)
EXTENDS Integers, Sequences, FiniteSets, TLC

(***************************************************************************)
(* Natural numbers of any width                                            *)
(***************************************************************************)
LimbBits == 10

LimbBase == 2 ^ LimbBits

Zero == << >>

RECURSIVE Norm(_)
Norm(a) ==
    IF a = << >> THEN a
    ELSE IF a[Len(a)] = 0 THEN Norm(SubSeq(a, 1, Len(a) - 1))
    ELSE a

RECURSIVE FromInt(_)
FromInt(i) ==
    IF i = 0 THEN << >> ELSE <<i % LimbBase>> \o FromInt(i \div LimbBase)

One == FromInt(1)

Limb(a, i) == IF i <= Len(a) THEN a[i] ELSE 0

RECURSIVE AddFrom(_, _, _, _)
AddFrom(a, b, i, carry) ==
    IF i > Len(a) /\ i > Len(b)
    THEN FromInt(carry)
    ELSE LET t == Limb(a, i) + Limb(b, i) + carry
         IN  <<t % LimbBase>> \o AddFrom(a, b, i + 1, t \div LimbBase)

Add(a, b) == AddFrom(a, b, 1, 0)

RECURSIVE SubFrom(_, _, _, _)
SubFrom(a, b, i, borrow) ==
    IF i > Len(a)
    THEN << >>
    ELSE LET t == a[i] - Limb(b, i) - borrow
         IN  IF t < 0
             THEN <<t + LimbBase>> \o SubFrom(a, b, i + 1, 1)
             ELSE <<t>> \o SubFrom(a, b, i + 1, 0)

\* a - b for a >= b
Sub(a, b) == Norm(SubFrom(a, b, 1, 0))

RECURSIVE CmpFrom(_, _, _)
CmpFrom(a, b, i) ==
    IF i = 0 THEN 0
    ELSE IF a[i] < b[i] THEN -1
    ELSE IF a[i] > b[i] THEN 1
    ELSE CmpFrom(a, b, i - 1)

\* -1, 0 or 1 as a < b, a = b or a > b
Cmp(a, b) ==
    IF Len(a) < Len(b) THEN -1
    ELSE IF Len(a) > Len(b) THEN 1
    ELSE CmpFrom(a, b, Len(a))

Lt(a, b) == Cmp(a, b) < 0

Le(a, b) == Cmp(a, b) <= 0

RECURSIVE MulSmallFrom(_, _, _, _)
MulSmallFrom(a, m, i, carry) ==
    IF i > Len(a)
    THEN FromInt(carry)
    ELSE LET t == a[i] * m + carry
         IN  <<t % LimbBase>> \o MulSmallFrom(a, m, i + 1, t \div LimbBase)

\* a * m for 0 <= m <= 2^20
MulSmall(a, m) == IF m = 0 THEN << >> ELSE MulSmallFrom(a, m, 1, 0)

RECURSIVE DivSmallFrom(_, _, _, _)
DivSmallFrom(a, d, i, rem) ==
    IF i = 0
    THEN [q |-> << >>, r |-> rem]
    ELSE LET t    == rem * LimbBase + a[i]
             rest == DivSmallFrom(a, d, i - 1, t % d)
         IN  [q |-> rest.q \o <<t \div d>>, r |-> rest.r]

\* quotient and remainder of a by d, for 0 < d <= 2^20
DivSmall(a, d) ==
    LET x == DivSmallFrom(a, d, Len(a), 0)
    IN  [q |-> Norm(x.q), r |-> x.r]

RECURSIVE PowSmall(_, _)
PowSmall(b, k) == IF k = 0 THEN One ELSE MulSmall(PowSmall(b, k - 1), b)

RECURSIVE ZeroLimbs(_)
ZeroLimbs(k) == IF k = 0 THEN << >> ELSE <<0>> \o ZeroLimbs(k - 1)

\* a * 2^bits
ShiftL(a, bits) ==
    IF a = << >> THEN a
    ELSE ZeroLimbs(bits \div LimbBits) \o MulSmall(a, 2 ^ (bits % LimbBits))

\* floor(a / 2^bits)
ShiftR(a, bits) ==
    LET k == bits \div LimbBits
    IN  IF k >= Len(a) THEN << >>
        ELSE DivSmall(SubSeq(a, k + 1, Len(a)), 2 ^ (bits % LimbBits)).q

RECURSIVE Mul(_, _)
Mul(a, b) ==
    IF b = << >> THEN << >>
    ELSE Add(MulSmall(a, b[1]), ShiftL(Mul(a, Tail(b)), LimbBits))

RECURSIVE SmallBitLen(_)
SmallBitLen(i) == IF i = 0 THEN 0 ELSE 1 + SmallBitLen(i \div 2)

\* the number of significant bits of a
BitLen(a) ==
    IF a = << >> THEN 0
    ELSE LimbBits * (Len(a) - 1) + SmallBitLen(a[Len(a)])

\* bit i of a, bit 0 the least significant
Bit(a, i) == (Limb(a, i \div LimbBits + 1) \div 2 ^ (i % LimbBits)) % 2

\* whether the lowest `bits` bits of a are all zero
LowZero(a, bits) == ShiftL(ShiftR(a, bits), bits) = a

IsOdd(a) == Bit(a, 0) = 1

RECURSIVE TrailingZeros(_, _)
TrailingZeros(a, cap) ==
    IF cap = 0 \/ a = << >> \/ IsOdd(a) THEN 0
    ELSE 1 + TrailingZeros(ShiftR(a, 1), cap - 1)


\* the quotient of a by base^k, with whether any remainder was dropped
RECURSIVE DivPow(_, _, _)
DivPow(a, base, k) ==
    IF k = 0
    THEN [q |-> a, sticky |-> FALSE]
    ELSE LET d    == DivSmall(a, base)
             rest == DivPow(d.q, base, k - 1)
         IN  [q |-> rest.q, sticky |-> rest.sticky \/ d.r # 0]

Max(x, y) == IF x >= y THEN x ELSE y

Min(x, y) == IF x <= y THEN x ELSE y

(***************************************************************************)
(* f64: [kind, neg, n, s] is (-1)^neg * n / 2^s when kind = "fin", with    *)
(* s = 0 or n odd, so that equal numbers are equal records.                *)
(***************************************************************************)
MantBits == 53

\* the record of n * 2^(-e), e any integer
Canon(n, e) ==
    IF n = << >> THEN [n |-> << >>, s |-> 0]
    ELSE IF e <= 0 THEN [n |-> ShiftL(n, -e), s |-> 0]
    ELSE LET tz == TrailingZeros(n, e)
         IN  [n |-> ShiftR(n, tz), s |-> e - tz]

Fin(neg, n, s) == [kind |-> "fin", neg |-> neg, n |-> n, s |-> s]

F64Zero == Fin(FALSE, << >>, 0)

F64Inf(neg) == [kind |-> "inf", neg |-> neg, n |-> << >>, s |-> 0]

F64NaN == [kind |-> "nan", neg |-> FALSE, n |-> << >>, s |-> 0]

\* n * 2^(-e), plus a dropped positive remainder below one unit of n when
\* sticky, rounded to MantBits significant bits, ties to even.  A caller that
\* passes sticky passes at least MantBits + 2 bits.
RoundToF64(neg, n, e, sticky) ==
    LET len == BitLen(n)
        x   == len - MantBits
        hi  == ShiftR(n, x)
        up  == /\ Bit(n, x - 1) = 1
               /\ (sticky \/ ~LowZero(n, x - 1) \/ IsOdd(hi))
        r   == IF len <= MantBits THEN Canon(n, e)
               ELSE Canon(IF up THEN Add(hi, One) ELSE hi, e - x)
    IN  Fin(neg, r.n, r.s)

\* `num as f64` for a u64
F64FromU64(n) == RoundToF64(FALSE, n, 0, FALSE)

\* x / b.powi(k) where b^k is exactly representable (1000^k for k <= 7,
\* 1024^k, 10^k for k <= 22): the exact quotient, rounded once
F64DivPowi(x, b, k) ==
    IF x.kind # "fin" \/ x.n = << >> THEN x
    ELSE LET t == Max(0, MantBits + 2 + k * SmallBitLen(b) - BitLen(x.n))
             d == DivPow(ShiftL(x.n, t), b, k)
         IN  RoundToF64(x.neg, d.q, x.s + t, d.sticky)

\* x * b.powi(k) where b^k is exactly representable: the exact product,
\* rounded once
F64MulPowi(x, b, k) ==
    IF x.kind # "fin" \/ x.n = << >> THEN x
    ELSE RoundToF64(x.neg, Mul(x.n, PowSmall(b, k)), x.s, FALSE)

\* f64::round: to the nearest integer, halfway cases away from zero
F64Round(x) ==
    IF x.kind # "fin" \/ x.s = 0 THEN x
    ELSE LET q == ShiftR(x.n, x.s)
         IN  Fin(x.neg, IF Bit(x.n, x.s - 1) = 1 THEN Add(q, One) ELSE q, 0)

\* f64::floor: toward negative infinity
F64Floor(x) ==
    IF x.kind # "fin" \/ x.s = 0 THEN x
    ELSE LET q == ShiftR(x.n, x.s)
         IN  Fin(x.neg, IF x.neg THEN Add(q, One) ELSE q, 0)

F64Abs(x) == [x EXCEPT !.neg = FALSE]

F64Neg(x) == IF x.kind = "nan" THEN x ELSE [x EXCEPT !.neg = ~x.neg]

\* f64's ==: NaN equals nothing, and -0.0 equals 0.0
F64Eq(x, y) ==
    /\ x.kind # "nan"
    /\ y.kind # "nan"
    /\ \/ x = y
       \/ x.kind = "fin" /\ y.kind = "fin" /\ x.n = << >> /\ y.n = << >>


(***************************************************************************)
(* util.rs                                                                 *)
(***************************************************************************)
\* let exponent = 10_f64.powi(round_places.into());
\* (num * exponent).round() / exponent
round_float(num, round_places) ==
    F64DivPowi(F64Round(F64MulPowi(num, 10, round_places)), 10, round_places)

(***************************************************************************)
(* decimal.rs                                                              *)
(***************************************************************************)
\* mutant: the table stops at PB
UNITS_WithoutEB == <<"B", "KB", "MB", "GB", "TB", "PB">>

UNITS == <<"B", "KB", "MB", "GB", "TB", "PB", "EB">>

\* arr[i] of a Rust array, indexed from 0; out of bounds panics
Index(arr, i) == IF i + 1 \in DOMAIN arr THEN arr[i + 1] ELSE "panic"

\* Option<u8>
None == [some |-> FALSE, v |-> 0]

Some(v) == [some |-> TRUE, v |-> v]

\* u64::ilog10 for num > 0
RECURSIVE ilog10(_)
ilog10(num) ==
    IF Lt(num, FromInt(10)) THEN 0 ELSE 1 + ilog10(DivSmall(num, 10).q)

\* mutant: the clamp is one too low
DecimalExponent_ClampOff(num) == Min(ilog10(num) \div 3, Len(UNITS) - 2)

\* std::cmp::min((num.ilog10() / 3) as usize, ByteValues::UNITS.len() - 1)
DecimalExponent(num) == Min(ilog10(num) \div 3, Len(UNITS) - 1)

\* mutant: a magnitude that rounding brings up to 1000 moves to the next unit
pretty_bytes_Renormalised(num, round_places) ==
    IF num = Zero
    THEN [num |-> F64Zero, suffix |-> "B"]
    ELSE LET exponent == DecimalExponent(num)
             scaled   == F64DivPowi(F64FromU64(num), 1000, exponent)
             rounded  == IF round_places.some
                         THEN round_float(scaled, round_places.v)
                         ELSE scaled
             bump     == /\ exponent < Len(UNITS) - 1
                         /\ ~Lt(rounded.n, ShiftL(FromInt(1000), rounded.s))
         IN  IF bump
             THEN [num    |-> F64DivPowi(rounded, 1000, 1),
                   suffix |-> Index(UNITS, exponent + 1)]
             ELSE [num |-> rounded, suffix |-> Index(UNITS, exponent)]

pretty_bytes(num, round_places) ==
    IF num = Zero
    THEN [num |-> F64Zero, suffix |-> "B"]
    ELSE LET exponent == DecimalExponent(num)
             scaled   == F64DivPowi(F64FromU64(num), 1000, exponent)
             rounded  == IF round_places.some
                         THEN round_float(scaled, round_places.v)
                         ELSE scaled
         IN  [num |-> rounded, suffix |-> Index(UNITS, exponent)]

\* An i64 is its 64-bit two's complement pattern, a natural below 2^64.
TwoTo63 == ShiftL(One, 63)

TwoTo64 == ShiftL(One, 64)

\* mutant: the comparison leaves out i64::MIN
is_negative_AboveMin(bits) == Lt(TwoTo63, bits)

\* i64::is_negative
is_negative(bits) == Le(TwoTo63, bits)

\* i64::unsigned_abs
unsigned_abs(bits) == IF is_negative(bits) THEN Sub(TwoTo64, bits) ELSE bits

\* mutant: the sign is dropped
pretty_bytes_signed_Unsigned(num, round_places) ==
    pretty_bytes(IF Le(TwoTo63, num) THEN Sub(TwoTo64, num) ELSE num,
                 round_places)

pretty_bytes_signed(num, round_places) ==
    LET pb == pretty_bytes(unsigned_abs(num), round_places)
    IN  IF is_negative(num) THEN [pb EXCEPT !.num = F64Neg(pb.num)] ELSE pb

(***************************************************************************)
(* binary.rs                                                               *)
(***************************************************************************)
UNITS_BINARY == <<"B", "KiB", "MiB", "GiB", "TiB", "PiB", "EiB", "ZiB", "YiB">>

\* num.log(1024.) is num.ln() / 1024_f64.ln(), both logarithms and the
\* quotient rounded to nearest.  The logarithm of a number a few units in the
\* last place below 1024^k rounds to the same f64 as that of 1024^k, and the
\* quotient of the nearby ones rounds to k: the floor of the result reaches k
\* from LogUlps[k] units in the last place below 1024^k on, a unit being
\* 2^(10k - 53).
LogUlps == <<4, 8, 24, 16, 24, 48, 8, 32>>

\* whether num.log(1024.).floor() >= k for an integer num >= 1, 1 <= k <= 8:
\* num >= 1024^k - LogUlps[k] * 2^(10k - 53)
LogReaches(n, k) ==
    Le(Sub(ShiftL(One, 10 * k + MantBits), ShiftL(FromInt(LogUlps[k]), 10 * k)),
       ShiftL(n, MantBits))

\* mutant: the cast of the logarithm of 0, -inf, wraps to usize::MAX
BinaryExponent_CastWraps(num) ==
    CASE num.kind = "nan" -> 0
      [] num.kind = "inf" -> Len(UNITS_BINARY) - 1
      [] num.n = << >>    -> Len(UNITS_BINARY) - 1
      [] OTHER -> Cardinality({k \in 1 .. Len(UNITS_BINARY) - 1 :
                                  LogReaches(num.n, k)})

\* mutant: the exponent is not clamped to the last unit
BinaryExponent_Unclamped(num) ==
    CASE num.kind = "nan" -> 0
      [] num.kind = "inf" -> Len(UNITS_BINARY)
      [] num.n = << >>    -> 0
      [] OTHER -> Cardinality({k \in 1 .. Len(UNITS_BINARY) - 1 :
                                  LogReaches(num.n, k)})
                  + Cardinality({k \in {Len(UNITS_BINARY)} :
                                    Le(PowSmall(1024, k), num.n)})

\* std::cmp::min(num.log(1024.).floor() as usize, UNITS.len() - 1) for
\* num >= 0 or NaN.  `as usize` saturates: the logarithm of 0 is -inf and
\* casts to 0, NaN casts to 0, +inf casts to usize::MAX.
BinaryExponent(num) ==
    CASE num.kind = "nan" -> 0
      [] num.kind = "inf" -> Len(UNITS_BINARY) - 1
      [] num.n = << >>    -> 0
      [] OTHER -> Cardinality({k \in 1 .. Len(UNITS_BINARY) - 1 :
                                  LogReaches(num.n, k)})

pretty_bytes_binary(num, round_places) ==
    LET floored  == F64Floor(num)
        negative == floored.neg
        exponent == BinaryExponent(F64Abs(floored))
        scaled   == F64DivPowi(F64Abs(floored), 1024, exponent)
        rounded  == IF round_places.some
                    THEN round_float(scaled, round_places.v)
                    ELSE scaled
    IN  [num    |-> IF negative THEN F64Neg(rounded) ELSE rounded,
         suffix |-> Index(UNITS_BINARY, exponent)]


(***************************************************************************)
(* The caller: one call at a time, of any of the four functions, on        *)
(* arguments from bounded sets.                                            *)
(***************************************************************************)
MaxPlaces == 3

MaxDelta == 1

MaxUlps == 2

MaxFracBits == 2

MaxPow1024 == 10

\* a + d for an integer d with a + d >= 0
AddInt(a, d) == IF d >= 0 THEN Add(a, FromInt(d)) ELSE Sub(a, FromInt(-d))

U64Max == Sub(TwoTo64, One)

Places == {None} \cup {Some(v) : v \in 0 .. MaxPlaces}

\* byte counts around the unit boundaries, those of the crate's tests and
\* doc examples, and u64::MAX
U64Inputs ==
    {n \in {IF k = 0 /\ d < 0 THEN Zero
            ELSE AddInt(MulSmall(PowSmall(1000, k), m), d) :
                k \in 0 .. Len(UNITS) - 1, m \in {1, 2, 18},
                d \in -MaxDelta .. MaxDelta} : Le(n, U64Max)}
    \cup {FromInt(i) : i \in {5430, 50060, 736532432, 5003, 8452020, 55700,
                              3564234, 1450, 1005}}
    \cup {U64Max}

\* an i64 argument, as sign and magnitude; i64::MIN is -2^63
I64Inputs ==
    {v \in {[neg |-> sg, mag |-> MulSmall(PowSmall(1000, k), m)] :
               sg \in BOOLEAN, k \in 0 .. Len(UNITS) - 1, m \in {1, 2, 1005}} :
        Lt(v.mag, TwoTo63)}
    \cup {[neg |-> FALSE, mag |-> Zero],
          [neg |-> FALSE, mag |-> Sub(TwoTo63, One)],
          [neg |-> TRUE, mag |-> Sub(TwoTo63, One)],
          [neg |-> TRUE, mag |-> TwoTo63]}

\* the two's complement pattern of an i64
ToI64(v) == IF v.neg /\ v.mag # Zero THEN Sub(TwoTo64, v.mag) ELSE v.mag

F64OfParts(neg, n, e) == LET c == Canon(n, e) IN Fin(neg, c.n, c.s)

\* f64 arguments: m * 1024^k, fractions m / 2^s, the integers just below
\* 1024^k that an f64 holds (k <= 5), the f64s just below each 1024^k, those
\* on either side of the place where the floored logarithm reaches k, the
\* zeros, the infinities and NaN
F64Inputs ==
    {F64OfParts(sg, MulSmall(PowSmall(1024, k), m), 0) :
        sg \in BOOLEAN, k \in 0 .. MaxPow1024, m \in {0, 1, 5, 1023}}
    \cup {F64OfParts(sg, FromInt(m), e) :
             sg \in BOOLEAN, m \in {1, 21, 5014, 3195498},
             e \in 0 .. MaxFracBits}
    \cup {F64OfParts(sg, Sub(PowSmall(1024, k), FromInt(j)), 0) :
             sg \in BOOLEAN, j \in 1 .. MaxUlps, k \in 1 .. 5}
    \cup {F64OfParts(sg, Sub(ShiftL(One, MantBits), FromInt(j)),
                     MantBits - 10 * k) :
             sg \in BOOLEAN, j \in 1 .. MaxUlps, k \in 1 .. MaxPow1024}
    \cup {F64OfParts(FALSE, Sub(ShiftL(One, MantBits), FromInt(LogUlps[k] + j)),
                     MantBits - 10 * k) :
             j \in 0 .. 1, k \in 1 .. Len(LogUlps)}
    \cup {F64Inf(FALSE), F64Inf(TRUE), F64NaN}

\* values to round: the f64 nearest to m / 10^k (the literal 1.45 is
\* m = 145, k = 2), of either sign
RoundInputs ==
    {F64DivPowi(Fin(sg, FromInt(m), 0), 10, k) :
        sg \in BOOLEAN, m \in {0, 1, 5, 25, 145, 285, 1005, 55700, 999999},
        k \in 0 .. MaxPlaces}

VARIABLES op, num, round_places, ret

vars == <<op, num, round_places, ret>>

NoResult == [num |-> F64Zero, suffix |-> "none"]

Init ==
    /\ op = "idle"
    /\ num = Zero
    /\ round_places = None
    /\ ret = NoResult

CallPrettyBytes ==
    /\ op = "idle"
    /\ \E n \in U64Inputs, r \in Places :
          /\ op' = "pretty_bytes"
          /\ num' = n
          /\ round_places' = r
          /\ ret' = pretty_bytes(n, r)

CallPrettyBytesSigned ==
    /\ op = "idle"
    /\ \E n \in I64Inputs, r \in Places :
          /\ op' = "pretty_bytes_signed"
          /\ num' = n
          /\ round_places' = r
          /\ ret' = pretty_bytes_signed(ToI64(n), r)

CallPrettyBytesBinary ==
    /\ op = "idle"
    /\ \E x \in F64Inputs, r \in Places :
          /\ op' = "pretty_bytes_binary"
          /\ num' = x
          /\ round_places' = r
          /\ ret' = pretty_bytes_binary(x, r)

CallRoundFloat ==
    /\ op = "idle"
    /\ \E x \in RoundInputs, p \in 0 .. MaxPlaces :
          /\ op' = "round_float"
          /\ num' = x
          /\ round_places' = Some(p)
          /\ ret' = [num |-> round_float(x, p), suffix |-> "none"]

\* the caller has the result and is free to call again
Return ==
    /\ op # "idle"
    /\ op' = "idle"
    /\ num' = Zero
    /\ round_places' = None
    /\ ret' = NoResult

Next ==
    \/ CallPrettyBytes
    \/ CallPrettyBytesSigned
    \/ CallPrettyBytesBinary
    \/ CallRoundFloat
    \/ Return

Spec == Init /\ [][Next]_vars


(***************************************************************************)
(* Properties                                                              *)
(***************************************************************************)
Unrounded == ~round_places.some

\* x < c and x <= c for a finite or infinite f64 x >= 0 and a natural c
F64LtNat(x, c) == x.kind = "fin" /\ Lt(x.n, ShiftL(c, x.s))

F64LeNat(x, c) == x.kind = "fin" /\ Le(x.n, ShiftL(c, x.s))

F64One == Fin(FALSE, One, 0)

\* |floor(x)|, the natural number pretty_bytes_binary formats
FlooredAbs(x) == F64Floor(x).n

\* suffix is the largest unit whose power of base is at most n: it is
\* units[i] with base^i <= n < base^(i+1), or the last unit with base^i <= n
LargestUnitThatFits(n, base, units, suffix) ==
    \E i \in 0 .. Len(units) - 1 :
        /\ suffix = units[i + 1]
        /\ Le(PowSmall(base, i), n)
        /\ (i = Len(units) - 1 \/ Lt(n, PowSmall(base, i + 1)))

\* C1: without rounding, for every input whose floored absolute value n is at
\* least 1, the unit returned is the largest unit with base^index <= n, so
\* that base^index <= n < base^(index + 1), or the largest defined unit when
\* n >= base^(maxIndex + 1); base 1000 for pretty_bytes, 1024 for
\* pretty_bytes_binary.
C1_UnitIsLargestThatFits ==
    /\ (op = "pretty_bytes" /\ Unrounded /\ num # Zero)
          => LargestUnitThatFits(num, 1000, UNITS, ret.suffix)
    /\ (op = "pretty_bytes_binary" /\ Unrounded /\ num.kind = "inf")
          => ret.suffix = UNITS_BINARY[Len(UNITS_BINARY)]
    /\ (op = "pretty_bytes_binary" /\ Unrounded /\ num.kind = "fin"
           /\ FlooredAbs(num) # Zero)
          => LargestUnitThatFits(FlooredAbs(num), 1024, UNITS_BINARY,
                                 ret.suffix)

\* C2: without rounding, an exact power of the base within the unit range
\* gives magnitude exactly 1 and the k-th unit: pretty_bytes(1000^k) for
\* k in 0..6 and pretty_bytes_binary(1024^k) for k in 0..8.
C2_ExactPowersGiveOne ==
    /\ (op = "pretty_bytes" /\ Unrounded)
          => \A k \in 0 .. Len(UNITS) - 1 :
                num = PowSmall(1000, k)
                   => ret = [num |-> F64One, suffix |-> UNITS[k + 1]]
    /\ (op = "pretty_bytes_binary" /\ Unrounded)
          => \A k \in 0 .. Len(UNITS_BINARY) - 1 :
                num = Fin(FALSE, PowSmall(1024, k), 0)
                   => ret = [num |-> F64One, suffix |-> UNITS_BINARY[k + 1]]

C2_Witness ==
    /\ op = "pretty_bytes"
    /\ Unrounded
    /\ num = PowSmall(1000, 6)
    /\ ret = [num |-> F64One, suffix |-> "EB"]

\* C3: a zero input gives magnitude 0 and the unit B, whatever the rounding
\* argument, from pretty_bytes and from pretty_bytes_binary.
C3_ZeroGivesZeroB ==
    /\ (op = "pretty_bytes" /\ num = Zero)
          => (F64Eq(ret.num, F64Zero) /\ ret.suffix = "B")
    /\ (op = "pretty_bytes_binary" /\ num.kind = "fin" /\ num.n = Zero)
          => (F64Eq(ret.num, F64Zero) /\ ret.suffix = "B")

C3_Witness ==
    /\ op = "pretty_bytes_binary"
    /\ num = F64Zero
    /\ round_places = Some(2)
    /\ ret = [num |-> F64Zero, suffix |-> "B"]

\* C4: for every n > 0 and every rounding argument r,
\* pretty_bytes_signed(-n, r) has the unit of pretty_bytes_signed(n, r) and
\* exactly the negated magnitude.
C4_SignedSymmetry ==
    (op = "pretty_bytes_signed" /\ ~num.neg /\ num.mag # Zero)
       => LET minus == pretty_bytes_signed(
                          ToI64([neg |-> TRUE, mag |-> num.mag]), round_places)
          IN  /\ minus.suffix = ret.suffix
              /\ minus.num = F64Neg(ret.num)
              /\ ~ret.num.neg
              /\ ret.num.n # Zero

C4_Witness ==
    /\ op = "pretty_bytes_signed"
    /\ num = [neg |-> FALSE, mag |-> FromInt(2000000)]
    /\ Unrounded
    /\ ret = [num |-> Fin(FALSE, FromInt(2), 0), suffix |-> "MB"]

\* C5: pretty_bytes_signed is total on i64, i64::MIN = -2^63 included: the
\* result has the unit of pretty_bytes(|n|, r), and the magnitude of
\* pretty_bytes(|n|, r), negated if and only if n < 0; n = 0 is not negated.
C5_SignedIsTotal ==
    op = "pretty_bytes_signed"
       => LET pb == pretty_bytes(num.mag, round_places)
          IN  /\ ret.suffix = pb.suffix
              /\ ret.suffix # "panic"
              /\ ret.num = IF num.neg /\ num.mag # Zero
                           THEN F64Neg(pb.num) ELSE pb.num

C5_Witness ==
    /\ op = "pretty_bytes_signed"
    /\ num = [neg |-> TRUE, mag |-> TwoTo63]
    /\ ret.suffix = "EB"
    /\ ret.num.neg

\* the cases C6 is about: a positive input of at least 1024^9, unrounded
C6_Clamped ==
    /\ op = "pretty_bytes_binary"
    /\ Unrounded
    /\ ~num.neg
    /\ \/ num.kind = "inf"
       \/ num.kind = "fin" /\ Le(PowSmall(1024, Len(UNITS_BINARY)), num.n)

\* the unit is the last one and the magnitude is n / 1024^8, not re-based
C6_LastUnitNotRebased ==
    /\ ret.suffix = UNITS_BINARY[Len(UNITS_BINARY)]
    /\ ret.num.kind = num.kind
    /\ ~ret.num.neg
    /\ num.kind = "fin"
          => ShiftL(ret.num.n, 10 * (Len(UNITS_BINARY) - 1))
                = ShiftL(num.n, ret.num.s)

\* C6 as claimed: every input n >= 1024^9 to pretty_bytes_binary gives the
\* largest unit YiB with the magnitude n / 1024^8, which is greater than the
\* base 1024.
C6_ClampedAboveBase ==
    C6_Clamped
       => /\ C6_LastUnitNotRebased
          /\ ~F64LeNat(ret.num, FromInt(1024))

\* C6 amended: every input n >= 1024^9 to pretty_bytes_binary gives the
\* largest unit YiB with the magnitude n / 1024^8, which is at least the
\* base 1024 (exactly 1024 for n = 1024^9).
C6_ClampedAtLeastBase ==
    C6_Clamped
       => /\ C6_LastUnitNotRebased
          /\ ~F64LtNat(ret.num, FromInt(1024))
          /\ (ret.num = Fin(FALSE, FromInt(1024), 0))
                <=> (num = Fin(FALSE, PowSmall(1024, 9), 0))

C6_Witness ==
    /\ C6_Clamped
    /\ num = Fin(FALSE, PowSmall(1024, 10), 0)
    /\ ret = [num |-> Fin(FALSE, PowSmall(1024, 2), 0), suffix |-> "YiB"]

\* C7: pretty_bytes_binary truncates the fractional part of the absolute
\* value of its input: for every input x the result is that for floor(|x|),
\* with the magnitude negated when x is negative.
C7_TruncatesAbsoluteValue ==
    (op = "pretty_bytes_binary" /\ num.kind # "nan")
       => LET pb == pretty_bytes_binary(F64Floor(F64Abs(num)), round_places)
          IN  /\ ret.suffix = pb.suffix
              /\ F64Eq(ret.num, IF num.neg THEN F64Neg(pb.num) ELSE pb.num)

\* C8: rounding never changes the unit: the unit of a call with Some(r) is
\* the unit of the same call with None, also when rounding brings the
\* magnitude up to the base (999_999 with Some(0) is 1000 KB).
C8_RoundingKeepsUnit ==
    /\ op = "pretty_bytes"
          => ret.suffix = pretty_bytes(num, None).suffix
    /\ op = "pretty_bytes_signed"
          => ret.suffix = pretty_bytes_signed(ToI64(num), None).suffix
    /\ op = "pretty_bytes_binary"
          => ret.suffix = pretty_bytes_binary(num, None).suffix

C8_Witness ==
    /\ op = "pretty_bytes"
    /\ num = FromInt(999999)
    /\ round_places = Some(0)
    /\ ret = [num |-> Fin(FALSE, FromInt(1000), 0), suffix |-> "KB"]

\* the f64 nearest to the multiple of 10^-p nearest to the finite f64 x,
\* ties between multiples away from zero, computed exactly
NearestMultiple(x, p) ==
    LET scaled == Mul(x.n, PowSmall(10, p))
        m      == ShiftR(Add(ShiftL(scaled, 1), ShiftL(One, x.s)), x.s + 1)
    IN  F64DivPowi(Fin(x.neg, m, 0), 10, p)

\* C9: round_float(value, places) is the multiple of 10^-places nearest to
\* value, exact ties away from zero, and the magnitude of a formatter called
\* with Some(places) is that rounding of its unrounded magnitude.
C9_RoundsToNearestMultiple ==
    /\ (op = "round_float" /\ num.kind = "fin")
          => F64Eq(ret.num, NearestMultiple(num, round_places.v))
    /\ (op = "pretty_bytes" /\ round_places.some)
          => F64Eq(ret.num, NearestMultiple(pretty_bytes(num, None).num,
                                            round_places.v))
    /\ (op = "pretty_bytes_binary" /\ round_places.some /\ num.kind = "fin")
          => F64Eq(ret.num,
                   NearestMultiple(pretty_bytes_binary(num, None).num,
                                   round_places.v))

\* what C10 says of every u64 n >= 1 besides the bound on the magnitude:
\* ilog10(n) / 3 is at most 6, so the clamp never lowers the exponent and
\* the index into UNITS is in bounds
C10_ExponentInRange ==
    /\ ilog10(num) \div 3 <= Len(UNITS) - 1
    /\ DecimalExponent(num) = ilog10(num) \div 3
    /\ ret.suffix # "panic"

\* C10 as claimed: for every u64 n >= 1 the exponent is in range and the
\* unrounded magnitude of pretty_bytes is below 1000.
C10_MagnitudeBelow1000 ==
    (op = "pretty_bytes" /\ Unrounded /\ num # Zero)
       => /\ C10_ExponentInRange
          /\ F64LtNat(ret.num, FromInt(1000))

\* C10 amended: for every u64 n >= 1 the exponent is in range and the
\* unrounded magnitude of pretty_bytes is at most 1000; it is 1000 only with
\* the unit PB, for an n below 10^18 that `as f64` rounds up to 10^18.
C10_MagnitudeAtMost1000 ==
    (op = "pretty_bytes" /\ Unrounded /\ num # Zero)
       => /\ C10_ExponentInRange
          /\ \/ F64LtNat(ret.num, FromInt(1000))
             \/ /\ ret.num = Fin(FALSE, FromInt(1000), 0)
                /\ ret.suffix = "PB"
                /\ Lt(num, PowSmall(1000, 6))
                /\ F64FromU64(num) = Fin(FALSE, PowSmall(1000, 6), 0)

C10_Witness ==
    /\ op = "pretty_bytes"
    /\ Unrounded
    /\ num = Sub(PowSmall(1000, 6), One)
    /\ ret = [num |-> Fin(FALSE, FromInt(1000), 0), suffix |-> "PB"]

=============================================================================
